---------------------------- MODULE Spec2Model ----------------------------
(***************************************************************************)
(* Model of main.py: a Telegram news bot.  One asyncio event loop runs the *)
(* scheduled_job task and the command handlers (/start, /update); both     *)
(* call send_daily_update, which fetches a batch of articles, filters it   *)
(* and sends the accepted articles, remembering sent urls in a bounded     *)
(* FIFO cache (sent_news_urls / sent_news_deque).                          *)
(*                                                                         *)
(* Text is modelled as a sequence of one-character strings, so that        *)
(* lower(), substring search and split() are computed, not assumed.        *)
(***************************************************************************)
EXTENDS Integers, Sequences, FiniteSets, TLC

(***************************************************************************)
(* Bounds of the model.                                                    *)
(***************************************************************************)
\* capacity of the deque (deque(maxlen=500) in the source, scaled down)
maxlen == 3
\* largest number of articles in one fetched batch (pageSize=20, scaled down)
MaxBatch == 2
\* number of chat ids that can talk to the bot
MaxUsers == 3
\* longest sequence of remember_url calls explored by CacheSpec
MaxCalls == 5
\* number of distinct identifiers offered to remember_url by CacheSpec
MaxIds == 5

(***************************************************************************)
(* Python values.                                                          *)
(***************************************************************************)
\* JSON null / Python None in a text field
Null == <<"<null>">>
\* a key that is missing from the JSON object
Absent == <<"<absent>">>
\* Python None as the value of a.get("url")
NoneUrl == "None"
\* the "url" key is missing from the JSON object
AbsentUrl == "<absent>"

UpperCase ==
    <<"A","B","C","D","E","F","G","H","I","J","K","L","M",
      "N","O","P","Q","R","S","T","U","V","W","X","Y","Z">>
LowerCase ==
    <<"a","b","c","d","e","f","g","h","i","j","k","l","m",
      "n","o","p","q","r","s","t","u","v","w","x","y","z">>

\* the elements of a sequence
Range(s) == {s[i] : i \in 1..Len(s)}

\* str.lower() on one character
lower_char(c) ==
    IF \E i \in 1..26 : UpperCase[i] = c
    THEN LowerCase[CHOOSE i \in 1..26 : UpperCase[i] = c]
    ELSE c

\* str.lower()
lower(s) == [i \in 1..Len(s) |-> lower_char(s[i])]

\* Python's `sub in s` for strings
contains(s, sub) ==
    \E i \in 0..(Len(s) - Len(sub)) :
        \A j \in 1..Len(sub) : s[i + j] = sub[j]

\* len(s.strip().split()): the number of maximal runs of non-blank characters
word_count(s) ==
    Cardinality({i \in 1..Len(s) : s[i] # " " /\ (i = 1 \/ s[i - 1] = " ")})

\* how an f-string renders a value: None becomes the text "None"
fstr(x) == IF x = Null THEN <<"N","o","n","e">> ELSE x

\* dict.get(key, default): the default only replaces a missing key
get(field, default) == IF field = Absent THEN default ELSE field

(***************************************************************************)
(* Classification (lines 68-96).                                           *)
(***************************************************************************)
TOP_COMPANIES ==
    << <<"A","p","p","l","e">>,
       <<"M","i","c","r","o","s","o","f","t">>,
       <<"A","m","a","z","o","n">>,
       <<"T","e","s","l","a">>,
       <<"G","o","o","g","l","e">>,
       <<"M","e","t","a">>,
       <<"N","v","i","d","i","a">>,
       <<"N","e","t","f","l","i","x">>,
       <<"I","n","t","e","l">>,
       <<"I","B","M">> >>

CRYPTO_KEYWORDS ==
    << <<"c","r","y","p","t","o">>,
       <<"b","i","t","c","o","i","n">>,
       <<"e","t","h","e","r","e","u","m">>,
       <<"b","l","o","c","k","c","h","a","i","n">>,
       <<"a","l","t","c","o","i","n">>,
       <<"W","e","b","3">>,
       <<"D","e","F","i">>,
       <<"B","i","n","a","n","c","e">>,
       <<"C","o","i","n","b","a","s","e">> >>

ECONOMY_KEYWORDS ==
    << <<"i","n","t","e","r","e","s","t"," ","r","a","t","e">>,
       <<"G","D","P">>,
       <<"i","n","f","l","a","t","i","o","n">>,
       <<"r","e","c","e","s","s","i","o","n">>,
       <<"c","e","n","t","r","a","l"," ","b","a","n","k">>,
       <<"F","e","d">>,
       <<"R","B","I">>,
       <<"t","a","r","i","f","f">>,
       <<"f","i","s","c","a","l">> >>

\* the flag emoji of the source are written as country codes
COUNTRY_KEYWORDS ==
    << [flag |-> "US", keywords |-> << <<"U","S">>, <<"A","m","e","r","i","c","a">>,
            <<"U","n","i","t","e","d"," ","S","t","a","t","e","s">>, <<"F","e","d">> >>],
       [flag |-> "CN", keywords |-> << <<"C","h","i","n","a">>, <<"B","e","i","j","i","n","g">> >>],
       [flag |-> "JP", keywords |-> << <<"J","a","p","a","n">>, <<"T","o","k","y","o">>, <<"Y","e","n">> >>],
       [flag |-> "DE", keywords |-> << <<"G","e","r","m","a","n","y">>, <<"B","e","r","l","i","n">>,
            <<"B","u","n","d","e","s","b","a","n","k">> >>],
       [flag |-> "IN", keywords |-> << <<"I","n","d","i","a">>, <<"D","e","l","h","i">>,
            <<"M","u","m","b","a","i">>, <<"R","B","I">> >>],
       [flag |-> "GB", keywords |-> << <<"U","K">>, <<"B","r","i","t","a","i","n">>,
            <<"L","o","n","d","o","n">>, <<"B","O","E">> >>],
       [flag |-> "FR", keywords |-> << <<"F","r","a","n","c","e">>, <<"P","a","r","i","s">> >>],
       [flag |-> "IT", keywords |-> << <<"I","t","a","l","y">>, <<"R","o","m","e">> >>],
       [flag |-> "BR", keywords |-> << <<"B","r","a","z","i","l">>, <<"B","r","a","s","i","l","i","a">>,
            <<"B","o","v","e","s","p","a">> >>],
       [flag |-> "CA", keywords |-> << <<"C","a","n","a","d","a">>, <<"O","t","t","a","w","a">> >>] >>

\* the country rows whose keyword list matches the (lower-cased) text
matching_countries(text) ==
    {n \in 1..Len(COUNTRY_KEYWORDS) :
        \E k \in 1..Len(COUNTRY_KEYWORDS[n].keywords) :
            contains(text, lower(COUNTRY_KEYWORDS[n].keywords[k]))}

\* the first matching row in table order, as its flag
first_country(text) ==
    LET n == CHOOSE m \in matching_countries(text) :
                 \A o \in matching_countries(text) : m <= o
    IN  COUNTRY_KEYWORDS[n].flag

\* a faulty variant of classify_article: the crypto keywords are tried before
\* the company names
classify_article_crypto_first(title, description) ==
    LET text == lower(title \o <<" ">> \o description) IN
    IF \E k \in 1..Len(CRYPTO_KEYWORDS) : contains(text, CRYPTO_KEYWORDS[k])
    THEN "Crypto Market"
    ELSE IF \E c \in 1..Len(TOP_COMPANIES) : contains(text, lower(TOP_COMPANIES[c]))
    THEN "Top Company News"
    ELSE IF \E k \in 1..Len(ECONOMY_KEYWORDS) : contains(text, ECONOMY_KEYWORDS[k])
    THEN IF matching_countries(text) # {}
         THEN first_country(text) \o " Economic News"
         ELSE "Global/Economic"
    ELSE "Other News"

\* classify_article(title, description), for two strings
classify_article(title, description) ==
    LET text == lower(title \o <<" ">> \o description) IN
    IF \E c \in 1..Len(TOP_COMPANIES) : contains(text, lower(TOP_COMPANIES[c]))
    THEN "Top Company News"
    ELSE IF \E k \in 1..Len(CRYPTO_KEYWORDS) : contains(text, CRYPTO_KEYWORDS[k])
    THEN "Crypto Market"
    ELSE IF \E k \in 1..Len(ECONOMY_KEYWORDS) : contains(text, ECONOMY_KEYWORDS[k])
    THEN IF matching_countries(text) # {}
         THEN first_country(text) \o " Economic News"
         ELSE "Global/Economic"
    ELSE "Other News"

ALLOWED_CATEGORIES ==
    {"Top Company News", "Crypto Market", "Global/Economic"}
    \cup {f \o " Economic News" :
            f \in {"US", "CN", "JP", "DE", "IN", "GB", "FR", "IT", "BR", "CA"}}

BANNED_SOURCES ==
    << <<"s","l","i","c","k","d","e","a","l","s">>,
       <<"b","u","z","z","f","e","e","d">>,
       <<"e","s","p","n">>,
       <<"g","o","a","l",".","c","o","m">>,
       <<"v","o","g","u","e">>,
       <<"e","l","l","e">> >>

\* a faulty variant of is_banned: the source name is not lower-cased
is_banned_case_sensitive(source_raw) ==
    \E b \in 1..Len(BANNED_SOURCES) : contains(source_raw, BANNED_SOURCES[b])

\* any(bad in source_raw.lower() for bad in BANNED_SOURCES)
is_banned(source_raw) ==
    \E b \in 1..Len(BANNED_SOURCES) : contains(lower(source_raw), BANNED_SOURCES[b])


(***************************************************************************)
(* Articles.  The news API returns JSON objects whose fields are all       *)
(* optional and nullable; Catalogue lists the records a fetch can return.  *)
(* "url" is a string or AbsentUrl; "source" is "obj" (an object), "null"   *)
(* or "absent"; the other fields are a text, Null or Absent.               *)
(***************************************************************************)
Catalogue ==
    << \* a company article from a clean source
       [url |-> "u1",
        title |-> <<"A","p","p","l","e"," ","u","p">>,
        description |-> <<"a"," ","b"," ","c"," ","d"," ","e"," ","f"," ","g"," ","h"," ","i"," ","j">>,
        content |-> Absent,
        source |-> "obj", source_name |-> <<"R","e","u","t","e","r","s">>,
        publishedAt |-> <<"2","0","2","4">>],
       \* a crypto article under the url of the first; ten words only with
       \* the content
       [url |-> "u1",
        title |-> <<"B","i","t","c","o","i","n"," ","d","i","p","s">>,
        description |-> <<"k"," ","l"," ","m"," ","n"," ","o">>,
        content |-> <<"p"," ","q"," ","r"," ","s"," ","t">>,
        source |-> "obj", source_name |-> <<"C","o","i","n","D","e","s","k">>,
        publishedAt |-> <<"2","0","2","4">>],
       \* a company article from a blocklisted source, in upper case
       [url |-> "u3",
        title |-> <<"T","e","s","l","a"," ","w","i","n","s">>,
        description |-> <<"a"," ","b"," ","c"," ","d"," ","e"," ","f"," ","g"," ","h"," ","i"," ","j">>,
        content |-> Absent,
        source |-> "obj", source_name |-> <<"E","S","P","N">>,
        publishedAt |-> <<"2","0","2","4">>],
       \* an article no keyword matches
       [url |-> "u4",
        title |-> <<"R","a","i","n"," ","t","o","d","a","y">>,
        description |-> <<"a"," ","b"," ","c"," ","d"," ","e"," ","f"," ","g"," ","h"," ","i"," ","j">>,
        content |-> Absent,
        source |-> "obj", source_name |-> <<"B","B","C">>,
        publishedAt |-> <<"2","0","2","4">>],
       \* a company article with three words of text
       [url |-> "u5",
        title |-> <<"I","n","t","e","l"," ","n","e","w","s">>,
        description |-> <<"x"," ","y"," ","z">>,
        content |-> Absent,
        source |-> "obj", source_name |-> <<"B","B","C">>,
        publishedAt |-> <<"2","0","2","4">>],
       \* an economy article with no url key; content is null
       [url |-> AbsentUrl,
        title |-> <<"C","h","i","n","a"," ","i","n","f","l","a","t","i","o","n">>,
        description |-> <<"a"," ","b"," ","c"," ","d"," ","e"," ","f"," ","g"," ","h"," ","i">>,
        content |-> Null,
        source |-> "obj", source_name |-> <<"B","B","C">>,
        publishedAt |-> <<"2","0","2","4">>],
       \* an article whose title is null
       [url |-> "u7",
        title |-> Null,
        description |-> <<"a"," ","b"," ","c"," ","d"," ","e"," ","f"," ","g"," ","h"," ","i"," ","j">>,
        content |-> Absent,
        source |-> "obj", source_name |-> <<"B","B","C">>,
        publishedAt |-> <<"2","0","2","4">>] >>

ArticleIds == 1..Len(Catalogue)

\* a.get("url")
article_url(article) == IF article.url = AbsentUrl THEN NoneUrl ELSE article.url

\* lines 140-182 for an article that was not skipped as seen: "continue" when
\* a filter drops it, "raise" when a statement raises (the exception leaves
\* the for loop and is caught at line 197), "send" when line 185 is reached
process_article(article) ==
    LET title_raw == get(article.title, <<"N","o"," ","T","i","t","l","e">>)
        description_raw == get(article.description, <<>>)
        content_raw == get(article.content, <<>>)
        published == get(article.publishedAt, <<>>)
        \* a.get("source", {}).get("name", "")
        source_raw == IF article.source = "absent" THEN <<>> ELSE get(article.source_name, <<>>)
    IN  IF article.source = "null" \/ source_raw = Null
        THEN "raise"       \* None.get / None.lower: AttributeError
        ELSE IF is_banned(source_raw)
        THEN "continue"
        ELSE IF title_raw = Null \/ description_raw = Null
        THEN "raise"       \* None + " " / str + None: TypeError
        ELSE IF classify_article(title_raw, description_raw) \notin ALLOWED_CATEGORIES
        THEN "continue"
        ELSE IF word_count(description_raw \o <<" ">> \o fstr(content_raw)) < 10
        THEN "continue"
        ELSE IF published = Null
        THEN "raise"       \* None.replace: AttributeError
        ELSE "send"

\* the catalogue entries that reach the send of line 185
Sendable == {n \in ArticleIds : process_article(Catalogue[n]) = "send"}

\* the catalogue entries that a filter drops (lines 148, 153, 167)
Filtered == {n \in ArticleIds : process_article(Catalogue[n]) = "continue"}

\* the catalogue entries on which a statement of lines 140-182 raises
Raising == {n \in ArticleIds : process_article(Catalogue[n]) = "raise"}

\* article_url of every catalogue entry
UrlOf == [n \in ArticleIds |-> article_url(Catalogue[n])]


(***************************************************************************)
(* State.                                                                  *)
(***************************************************************************)
Users == 1..MaxUsers
Tasks == {"sched", "cmd"}

\* the identifiers CacheSpec passes to remember_url
Ids == 1..MaxIds

\* the <<chat, url>> pairs whose deliveries the history variables record
Tracked == {<<1, "u1">>}

VARIABLES
    subscribed_users,   \* the global set of line 27
    sent_news_urls,     \* the global set of line 29
    sent_news_deque,    \* the global deque of line 28, oldest first
    pc,                 \* where each task stands
    running,            \* the task the event loop is executing, or "none"
    chat_id,            \* send_daily_update's argument, per task (0: no pass)
    a,                  \* per task: the loop variable of line 135, the article
                        \* (of Catalogue) the for loop read last; 0 before that
    unread,             \* per task: how many articles of the fetched list the
                        \* for loop has not read yet.  A fetch can return any
                        \* list of at most MaxBatch articles; only its length
                        \* is fixed when it returns, and each article is drawn
                        \* from Catalogue when the loop reads it
    accepted,           \* history, per task: the urls of the articles that the
                        \* pass has accepted and handed to the send of line 185
    command,            \* the command the handler task is serving
    iter_rest,          \* line 239's set iterator: the users not yet yielded
    si_used,            \* line 239's set iterator: the set's size at its creation
    calls,              \* history: the identifiers CacheSpec passed to remember_url
    prev,               \* history: the Tracked pairs the scheduler's previous
                        \* cycle delivered
    now,                \* history: the Tracked pairs the scheduler's current
                        \* cycle has delivered
    cyc_seen,           \* history: the urls of Tracked that were in
                        \* sent_news_urls when the current cycle began
    cyc_owed,           \* history: the Tracked pairs <<chat, url>> such that the
                        \* cycle fetched for chat an article with this url that
                        \* passes the filters and was unseen when the cycle began
    cyc_failed,         \* history: a send of the current cycle raised
    fn_args,            \* the arguments ClassifySpec and SafeMdSpec pass to the
                        \* function they apply; <<>> in the other specifications
    fn_result           \* <<r>> once the function has returned r, <<>> before

cache_vars == <<sent_news_urls, sent_news_deque>>
task_vars == <<pc, running, chat_id, a, unread, accepted, command>>
loop_vars == <<a, unread, accepted>>
iter_vars == <<iter_rest, si_used>>
hist_vars == <<prev, now>>
cycle_vars == <<cyc_seen, cyc_owed, cyc_failed>>
fn_vars == <<fn_args, fn_result>>
harness_vars == <<calls, fn_args, fn_result>>
vars == <<subscribed_users, sent_news_urls, sent_news_deque, pc, running, chat_id,
          a, unread, accepted, command, iter_rest, si_used, calls, prev, now,
          cyc_seen, cyc_owed, cyc_failed, fn_args, fn_result>>

(***************************************************************************)
(* The dedup cache (lines 28-29, 46-52).                                   *)
(***************************************************************************)
\* deque.append on a deque(maxlen): a full deque drops its leftmost entry
deque_append(deque, x) ==
    IF Len(deque) = maxlen THEN Append(Tail(deque), x) ELSE Append(deque, x)

\* Faulty variants of remember_url, against which the cache properties are
\* tested.
\* without line 52: the popped url stays in the set
remember_url_keeps_popped(urls, deque, url) ==
    IF url \notin urls
    THEN LET appended == deque_append(deque, url)
         IN  IF Len(appended) = maxlen
             THEN [urls |-> urls \cup {url}, deque |-> Tail(appended)]
             ELSE [urls |-> urls \cup {url}, deque |-> appended]
    ELSE [urls |-> urls, deque |-> deque]

\* without lines 50-52: only a full deque drops its oldest entry, on append
remember_url_evicts_when_over(urls, deque, url) ==
    IF url \notin urls
    THEN [urls |-> IF Len(deque) = maxlen
                   THEN (urls \cup {url}) \ {Head(deque)}
                   ELSE urls \cup {url},
          deque |-> deque_append(deque, url)]
    ELSE [urls |-> urls, deque |-> deque]

\* without the test of line 47
remember_url_unconditional(urls, deque, url) ==
    LET appended == deque_append(deque, url)
    IN  IF Len(appended) = maxlen
        THEN [urls |-> (urls \cup {url}) \ {Head(appended)}, deque |-> Tail(appended)]
        ELSE [urls |-> urls \cup {url}, deque |-> appended]

\* pop() for popleft() at line 51: the newest entry is evicted
remember_url_evicts_newest(urls, deque, url) ==
    IF url \notin urls
    THEN LET appended == deque_append(deque, url)
         IN  IF Len(appended) = maxlen
             THEN [urls |-> urls, deque |-> SubSeq(appended, 1, Len(appended) - 1)]
             ELSE [urls |-> urls \cup {url}, deque |-> appended]
    ELSE [urls |-> urls, deque |-> deque]

\* remember_url(url) on the cache <<urls, deque>>: the cache it leaves
remember_url(urls, deque, url) ==
    IF url \notin urls
    THEN LET added == urls \cup {url}
             appended == deque_append(deque, url)
         IN  IF Len(appended) = maxlen
             THEN \* oldest = popleft(); discard(oldest)
                  [urls |-> added \ {Head(appended)}, deque |-> Tail(appended)]
             ELSE [urls |-> added, deque |-> appended]
    ELSE [urls |-> urls, deque |-> deque]

\* one call of remember_url on the global cache
Remember(url) ==
    LET c == remember_url(sent_news_urls, sent_news_deque, url)
    IN  /\ sent_news_urls' = c.urls
        /\ sent_news_deque' = c.deque

(***************************************************************************)
(* Initial state: main() has loaded the subscribers, on_startup has        *)
(* created the scheduled_job task, no update has arrived.                  *)
(***************************************************************************)
Loaded ==
    /\ subscribed_users \in SUBSET Users      \* load_subscribers()
    /\ sent_news_urls = {}
    /\ sent_news_deque = <<>>
    /\ pc = [t \in Tasks |-> IF t = "sched" THEN "new" ELSE "idle"]
    /\ running = "none"
    /\ chat_id = [t \in Tasks |-> 0]
    /\ a = [t \in Tasks |-> 0]
    /\ unread = [t \in Tasks |-> 0]
    /\ accepted = [t \in Tasks |-> {}]
    /\ command = "none"
    /\ iter_rest = {}
    /\ si_used = 0
    /\ calls = <<>>
    /\ prev = {}
    /\ now = {}
    /\ cyc_seen = {}
    /\ cyc_owed = {}
    /\ cyc_failed = FALSE
    /\ fn_result = <<>>

Init ==
    /\ Loaded
    /\ fn_args = <<>>

\* t is between the start and the end of send_daily_update
in_pass(t) ==
    pc[t] \in {"fetch", "fetch_error", "articles", "await_notice", "await_md",
              "await_fallback"}

\* where t continues when send_daily_update returns: the scheduler at the for
\* statement (still running), /start at its notify send, /update at its end
pass_return(t) ==
    IF t = "sched" THEN [pc |-> "for", running |-> "sched"]
    ELSE IF command = "start" THEN [pc |-> "await_notify", running |-> "none"]
    ELSE [pc |-> "idle", running |-> "none"]

\* send_daily_update returns to its caller; its locals are gone
Return(t) ==
    /\ pc' = [pc EXCEPT ![t] = pass_return(t).pc]
    /\ running' = pass_return(t).running
    /\ chat_id' = [chat_id EXCEPT ![t] = 0]
    /\ a' = [a EXCEPT ![t] = 0]
    /\ unread' = [unread EXCEPT ![t] = 0]
    /\ accepted' = [accepted EXCEPT ![t] = {}]
    /\ command' = IF t = "cmd" /\ command = "update" THEN "none" ELSE command

\* history: a send of a pass of the scheduler raised
NoteFailed(t) ==
    cyc_failed' = (cyc_failed \/ t = "sched")

\* history: the scheduler delivered t's current article
NoteDelivered(t) ==
    now' = IF t = "sched"
           THEN now \cup ({<<chat_id[t], UrlOf[a[t]]>>} \cap Tracked)
           ELSE now

(***************************************************************************)
(* scheduled_job (lines 236-244).                                          *)
(***************************************************************************)
\* lines 237-239: the task starts, or wakes from asyncio.sleep, and the for
\* statement creates the iterator of subscribed_users
SchedWake ==
    /\ pc["sched"] \in {"new", "sleep"}
    /\ running = "none"
    /\ pc' = [pc EXCEPT !["sched"] = "for"]
    /\ running' = "sched"
    /\ iter_rest' = subscribed_users
    /\ si_used' = Cardinality(subscribed_users)
    /\ prev' = now
    /\ now' = {}
    /\ cyc_seen' = sent_news_urls \cap {p[2] : p \in Tracked}
    /\ cyc_owed' = {}
    /\ cyc_failed' = FALSE
    /\ UNCHANGED <<subscribed_users, cache_vars, chat_id, loop_vars, command, harness_vars>>

\* line 239: the iterator yields the next user and line 241 calls the pass
SchedForNext ==
    /\ pc["sched"] = "for"
    /\ running = "sched"
    /\ si_used = Cardinality(subscribed_users)
    /\ \E u \in iter_rest :
        /\ iter_rest' = iter_rest \ {u}
        /\ chat_id' = [chat_id EXCEPT !["sched"] = u]
    /\ pc' = [pc EXCEPT !["sched"] = "fetch"]
    /\ UNCHANGED <<subscribed_users, cache_vars, running, loop_vars, command,
                   si_used, harness_vars, hist_vars, cycle_vars>>

\* line 239 then 244: the iterator is exhausted, the task sleeps
SchedForStop ==
    /\ pc["sched"] = "for"
    /\ running = "sched"
    /\ si_used = Cardinality(subscribed_users)
    /\ iter_rest = {}
    /\ pc' = [pc EXCEPT !["sched"] = "sleep"]
    /\ running' = "none"
    /\ si_used' = 0
    /\ UNCHANGED <<subscribed_users, cache_vars, chat_id, loop_vars, command,
                   iter_rest, harness_vars, hist_vars, cycle_vars>>

\* line 239: the set changed size since the iterator was created, so next()
\* raises RuntimeError outside the try of line 240 and the task ends
SchedForRaise ==
    /\ pc["sched"] = "for"
    /\ running = "sched"
    /\ si_used # Cardinality(subscribed_users)
    /\ pc' = [pc EXCEPT !["sched"] = "dead"]
    /\ running' = "none"
    /\ UNCHANGED <<subscribed_users, cache_vars, chat_id, loop_vars, command,
                   iter_vars, harness_vars, hist_vars, cycle_vars>>

(***************************************************************************)
(* send_daily_update (lines 99-198), run by task t.                        *)
(***************************************************************************)
\* history: what reading article x for chat c adds to cyc_owed
owed_by(x, c) ==
    IF x \in Sendable /\ UrlOf[x] \notin cyc_seen
    THEN {<<c, UrlOf[x]>>} \cap Tracked
    ELSE {}

NoteOwed(t, x) ==
    cyc_owed' = IF t = "sched" THEN cyc_owed \cup owed_by(x, chat_id[t]) ELSE cyc_owed

\* lines 116-117 raise (no connection, no JSON) and control passes to the
\* except clause of line 197
FetchFails(t) ==
    /\ pc[t] = "fetch"
    /\ running = t
    /\ pc' = [pc EXCEPT ![t] = "fetch_error"]
    /\ UNCHANGED <<subscribed_users, cache_vars, running, chat_id, loop_vars,
                   command, iter_vars, harness_vars, hist_vars, cycle_vars>>

\* a faulty variant of FetchCaught: the exception of the fetch is not caught
\* in the pass and ends the task
FetchUncaught(t) ==
    /\ pc[t] = "fetch_error"
    /\ running = t
    /\ pc' = [pc EXCEPT ![t] = "dead"]
    /\ running' = "none"
    /\ UNCHANGED <<subscribed_users, cache_vars, chat_id, loop_vars, command,
                   iter_vars, harness_vars, hist_vars, cycle_vars>>

\* lines 197-198: the exception of the fetch is logged and the pass returns
FetchCaught(t) ==
    /\ pc[t] = "fetch_error"
    /\ running = t
    /\ Return(t)
    /\ UNCHANGED <<subscribed_users, cache_vars, iter_vars, harness_vars, hist_vars,
                   cycle_vars>>

\* lines 116-121: no article came back; the notice is sent (an await)
FetchEmpty(t) ==
    /\ pc[t] = "fetch"
    /\ running = t
    /\ pc' = [pc EXCEPT ![t] = "await_notice"]
    /\ running' = "none"
    /\ UNCHANGED <<subscribed_users, cache_vars, chat_id, loop_vars, command,
                   iter_vars, harness_vars, hist_vars, cycle_vars>>

\* lines 116-135: a list of n articles came back and the for loop starts
FetchBatch(t) ==
    /\ pc[t] = "fetch"
    /\ running = t
    /\ \E n \in 1..MaxBatch : unread' = [unread EXCEPT ![t] = n]
    /\ pc' = [pc EXCEPT ![t] = "articles"]
    /\ UNCHANGED <<subscribed_users, cache_vars, running, chat_id, a, accepted,
                   command, iter_vars, harness_vars, hist_vars, cycle_vars>>

\* line 135: the list is exhausted and the pass returns
ArticlesDone(t) ==
    /\ pc[t] = "articles"
    /\ running = t
    /\ unread[t] = 0
    /\ Return(t)
    /\ UNCHANGED <<subscribed_users, cache_vars, iter_vars, harness_vars, hist_vars,
                   cycle_vars>>

\* line 135: the for loop reads article x
Read(t, x) ==
    /\ pc[t] = "articles"
    /\ running = t
    /\ unread[t] > 0
    /\ a' = [a EXCEPT ![t] = x]
    /\ unread' = [unread EXCEPT ![t] = @ - 1]

\* lines 135-138: the article's url is in the cache
ArticleSeen(t) ==
    /\ \E x \in ArticleIds :
        /\ Read(t, x)
        /\ UrlOf[x] \in sent_news_urls
        /\ NoteOwed(t, x)
    /\ UNCHANGED <<subscribed_users, cache_vars, pc, running, chat_id, accepted,
                   command, iter_vars, harness_vars, hist_vars, cyc_seen, cyc_failed>>

\* lines 135-167: a filter drops the article
ArticleDropped(t) ==
    /\ \E x \in Filtered :
        /\ Read(t, x)
        /\ UrlOf[x] \notin sent_news_urls
    /\ UNCHANGED <<subscribed_users, cache_vars, pc, running, chat_id, accepted,
                   command, iter_vars, harness_vars, hist_vars, cycle_vars>>

\* lines 135-182: a statement raises on the article; line 197 catches it and
\* the pass returns
ArticleRaises(t) ==
    /\ pc[t] = "articles"
    /\ running = t
    /\ unread[t] > 0
    /\ \E x \in Raising : UrlOf[x] \notin sent_news_urls
    /\ Return(t)
    /\ UNCHANGED <<subscribed_users, cache_vars, iter_vars, harness_vars, hist_vars,
                   cycle_vars>>

\* lines 135-185: the article is accepted and the MarkdownV2 send is awaited
ArticleSend(t) ==
    /\ \E x \in Sendable :
        /\ Read(t, x)
        /\ UrlOf[x] \notin sent_news_urls
        /\ NoteOwed(t, x)
        /\ accepted' = [accepted EXCEPT ![t] = @ \cup {UrlOf[x]}]
    /\ pc' = [pc EXCEPT ![t] = "await_md"]
    /\ running' = "none"
    /\ UNCHANGED <<subscribed_users, cache_vars, chat_id, command, iter_vars,
                   harness_vars, hist_vars, cyc_seen, cyc_failed>>

\* lines 185-191: the MarkdownV2 send returned; the url is remembered
MdSent(t) ==
    /\ pc[t] = "await_md"
    /\ running = "none"
    /\ Remember(UrlOf[a[t]])
    /\ NoteDelivered(t)
    /\ pc' = [pc EXCEPT ![t] = "articles"]
    /\ running' = t
    /\ UNCHANGED <<subscribed_users, chat_id, loop_vars, command, iter_vars,
                   harness_vars, prev, cycle_vars>>

\* lines 192-195: the MarkdownV2 send raised; the plain text is sent (an await)
MdFailed(t) ==
    /\ pc[t] = "await_md"
    /\ running = "none"
    /\ pc' = [pc EXCEPT ![t] = "await_fallback"]
    /\ NoteFailed(t)
    /\ UNCHANGED <<subscribed_users, cache_vars, running, chat_id, loop_vars,
                   command, iter_vars, harness_vars, hist_vars, cyc_seen, cyc_owed>>

\* a faulty variant of FallbackSent: the url is recorded after the plain-text
\* send as well
FallbackSentRemembers(t) ==
    /\ pc[t] = "await_fallback"
    /\ running = "none"
    /\ Remember(UrlOf[a[t]])
    /\ NoteDelivered(t)
    /\ pc' = [pc EXCEPT ![t] = "articles"]
    /\ running' = t
    /\ UNCHANGED <<subscribed_users, chat_id, loop_vars, command, iter_vars,
                   harness_vars, prev, cycle_vars>>

\* line 195: the plain-text send returned; the loop goes on
FallbackSent(t) ==
    /\ pc[t] = "await_fallback"
    /\ running = "none"
    /\ NoteDelivered(t)
    /\ pc' = [pc EXCEPT ![t] = "articles"]
    /\ running' = t
    /\ UNCHANGED <<subscribed_users, cache_vars, chat_id, loop_vars, command,
                   iter_vars, harness_vars, prev, cycle_vars>>

\* line 195: the plain-text send raised inside the handler of line 192; the
\* exception leaves the for loop, line 197 catches it and the pass returns
FallbackFailed(t) ==
    /\ pc[t] = "await_fallback"
    /\ running = "none"
    /\ Return(t)
    /\ UNCHANGED <<subscribed_users, cache_vars, iter_vars, harness_vars, hist_vars,
                   cycle_vars>>

\* lines 121-122: the notice was sent and the pass returns
NoticeSent(t) ==
    /\ pc[t] = "await_notice"
    /\ running = "none"
    /\ Return(t)
    /\ UNCHANGED <<subscribed_users, cache_vars, iter_vars, harness_vars, hist_vars,
                   cycle_vars>>

\* line 121: the send of the notice raised; line 197 catches it and the pass
\* returns
NoticeFailed(t) ==
    /\ pc[t] = "await_notice"
    /\ running = "none"
    /\ Return(t)
    /\ NoteFailed(t)
    /\ UNCHANGED <<subscribed_users, cache_vars, iter_vars, harness_vars, hist_vars,
                   cyc_seen, cyc_owed>>

(***************************************************************************)
(* The command handlers (lines 204-229).  The application handles one      *)
(* update at a time, in the event loop scheduled_job runs in.              *)
(***************************************************************************)
\* lines 204-214 of start: the user is added and saved, the reply is awaited
StartCommand(u) ==
    /\ pc["cmd"] = "idle"
    /\ running = "none"
    /\ subscribed_users' = subscribed_users \cup {u}
    /\ pc' = [pc EXCEPT !["cmd"] = "await_reply"]
    /\ chat_id' = [chat_id EXCEPT !["cmd"] = u]
    /\ command' = "start"
    /\ UNCHANGED <<cache_vars, running, loop_vars, iter_vars, harness_vars, hist_vars,
                   cycle_vars>>

\* lines 210-212 of start: save_subscribers raises (the file cannot be
\* written) after the user was added; the handler ends
StartSaveFails(u) ==
    /\ pc["cmd"] = "idle"
    /\ running = "none"
    /\ u \notin subscribed_users
    /\ subscribed_users' = subscribed_users \cup {u}
    /\ UNCHANGED <<cache_vars, task_vars, iter_vars, harness_vars, hist_vars, cycle_vars>>

\* lines 226-228 of manual_update: the reply is awaited
UpdateCommand(u) ==
    /\ pc["cmd"] = "idle"
    /\ running = "none"
    /\ pc' = [pc EXCEPT !["cmd"] = "await_reply"]
    /\ chat_id' = [chat_id EXCEPT !["cmd"] = u]
    /\ command' = "update"
    /\ UNCHANGED <<subscribed_users, cache_vars, running, loop_vars, iter_vars,
                   harness_vars, hist_vars, cycle_vars>>

\* lines 214-215, 228-229: reply_text returned and the pass is called
ReplySent ==
    /\ pc["cmd"] = "await_reply"
    /\ running = "none"
    /\ pc' = [pc EXCEPT !["cmd"] = "fetch"]
    /\ running' = "cmd"
    /\ UNCHANGED <<subscribed_users, cache_vars, chat_id, loop_vars, command,
                   iter_vars, harness_vars, hist_vars, cycle_vars>>

\* lines 214, 228: reply_text raised; the handler ends (error_handler logs it)
ReplyFailed ==
    /\ pc["cmd"] = "await_reply"
    /\ running = "none"
    /\ pc' = [pc EXCEPT !["cmd"] = "idle"]
    /\ chat_id' = [chat_id EXCEPT !["cmd"] = 0]
    /\ command' = "none"
    /\ UNCHANGED <<subscribed_users, cache_vars, running, loop_vars, iter_vars,
                   harness_vars, hist_vars, cycle_vars>>

\* lines 217-224 of start: the notify send returned or raised (caught)
NotifyDone ==
    /\ pc["cmd"] = "await_notify"
    /\ running = "none"
    /\ pc' = [pc EXCEPT !["cmd"] = "idle"]
    /\ command' = "none"
    /\ UNCHANGED <<subscribed_users, cache_vars, running, chat_id, loop_vars,
                   iter_vars, harness_vars, hist_vars, cycle_vars>>

(***************************************************************************)
(* The program.                                                            *)
(***************************************************************************)
Next ==
    \/ SchedWake
    \/ SchedForNext
    \/ SchedForStop
    \/ SchedForRaise
    \/ \E t \in Tasks : FetchFails(t)
    \/ \E t \in Tasks : FetchCaught(t)
    \/ \E t \in Tasks : FetchEmpty(t)
    \/ \E t \in Tasks : FetchBatch(t)
    \/ \E t \in Tasks : ArticlesDone(t)
    \/ \E t \in Tasks : ArticleSeen(t)
    \/ \E t \in Tasks : ArticleDropped(t)
    \/ \E t \in Tasks : ArticleRaises(t)
    \/ \E t \in Tasks : ArticleSend(t)
    \/ \E t \in Tasks : MdSent(t)
    \/ \E t \in Tasks : MdFailed(t)
    \/ \E t \in Tasks : FallbackSent(t)
    \/ \E t \in Tasks : FallbackFailed(t)
    \/ \E t \in Tasks : NoticeSent(t)
    \/ \E t \in Tasks : NoticeFailed(t)
    \/ \E u \in Users : StartCommand(u)
    \/ \E u \in Users : StartSaveFails(u)
    \/ \E u \in Users : UpdateCommand(u)
    \/ ReplySent
    \/ ReplyFailed
    \/ NotifyDone

Spec == Init /\ [][Next]_vars

(***************************************************************************)
(* The cache alone: remember_url is called with any sequence of at most    *)
(* MaxCalls identifiers, starting from the empty cache.                    *)
(***************************************************************************)
CacheInit ==
    /\ Init
    /\ subscribed_users = {}

RememberCall(x) ==
    /\ Len(calls) < MaxCalls
    /\ Remember(x)
    /\ calls' = Append(calls, x)
    /\ UNCHANGED <<subscribed_users, task_vars, iter_vars, hist_vars, cycle_vars,
                   fn_vars>>

CacheNext == \E x \in Ids : RememberCall(x)

CacheSpec == CacheInit /\ [][CacheNext]_vars

(***************************************************************************)
(* classify_article alone: it is applied to a title and a description.     *)
(* The titles hold every entry of the three keyword lists, as written, in  *)
(* lower case and in upper case, alone or inside other words; the          *)
(* descriptions are empty, plain, or hold a keyword of one of the lists.   *)
(***************************************************************************)
\* one character in upper case
upper_char(c) ==
    IF \E i \in 1..26 : LowerCase[i] = c
    THEN UpperCase[CHOOSE i \in 1..26 : LowerCase[i] = c]
    ELSE c

\* a text in upper case, as a sequence
upper(s) == [i \in 1..Len(s) |-> upper_char(s[i])]

\* a text with each character mapped by lower_char, as a sequence
lowered(s) == [i \in 1..Len(s) |-> lower_char(s[i])]

Keywords == Range(TOP_COMPANIES) \cup Range(CRYPTO_KEYWORDS) \cup Range(ECONOMY_KEYWORDS)

KeywordVariants == UNION {{k, <<>> \o lowered(k), <<>> \o upper(k)} : k \in Keywords}

TitlePrefixes == {<<>>, <<"t","h","e"," ">>}

TitleSuffixes == {<<>>, <<" ","n","o","w">>}

ClassifyTitles ==
    {<<>>} \cup {pre \o k \o post :
                    pre \in TitlePrefixes, k \in KeywordVariants, post \in TitleSuffixes}

ClassifyDescriptions ==
    {<<>>,
     <<"r","a","i","n">>,
     <<"b","i","t","c","o","i","n">>,
     <<"i","n","f","l","a","t","i","o","n"," ","i","n"," ","C","h","i","n","a">>,
     <<"T","e","s","l","a">>}

ClassifyInit ==
    /\ Loaded
    /\ subscribed_users = {}
    /\ fn_args \in ClassifyTitles \X ClassifyDescriptions

\* classify_article(title, description) is called and returns
Classify ==
    /\ fn_result = <<>>
    /\ fn_result' = <<classify_article(fn_args[1], fn_args[2])>>
    /\ UNCHANGED <<subscribed_users, cache_vars, task_vars, iter_vars, calls,
                   hist_vars, cycle_vars, fn_args>>

ClassifyNext == Classify

ClassifySpec == ClassifyInit /\ [][ClassifyNext]_vars

(***************************************************************************)
(* safe_md applied alone to every short text over the characters it treats *)
(* specially and a few it does not.                                        *)
(***************************************************************************)
MaxText == 3

\* the grave accent (U+0060), which a string literal here cannot hold
Backtick == "GRAVE"

\* escape_chars (line 61); re.escape only protects them inside the class
escape_chars ==
    <<"_", "*", "[", "]", "(", ")", "~", Backtick, ">", "#", "+", "=", "|", "{",
      "}", ".", "!">>

\* re.sub(f"([{re.escape(escape_chars)}])", r"\\\1", text): every character
\* of the class is replaced by a backslash and itself, left to right
sub_escape_chars(text) ==
    LET RECURSIVE sub(_)
        sub(s) == IF s = <<>> THEN <<>>
                  ELSE (IF Head(s) \in Range(escape_chars)
                        THEN <<"\\", Head(s)>> ELSE <<Head(s)>>) \o sub(Tail(s))
    IN sub(text)

\* text.replace("-", "\\-")
replace_hyphen(text) ==
    LET RECURSIVE rep(_)
        rep(s) == IF s = <<>> THEN <<>>
                  ELSE (IF Head(s) = "-" THEN <<"\\", "-">> ELSE <<Head(s)>>)
                       \o rep(Tail(s))
    IN rep(text)

\* a faulty variant of safe_md: the second pass also escapes the backslash
safe_md_escapes_backslash(text) ==
    LET RECURSIVE rep(_)
        rep(s) == IF s = <<>> THEN <<>>
                  ELSE (IF Head(s) \in {"-", "\\"} THEN <<"\\", Head(s)>>
                        ELSE <<Head(s)>>) \o rep(Tail(s))
    IN IF text = <<>> THEN <<>> ELSE rep(sub_escape_chars(text))

\* safe_md(text), for a string
safe_md(text) ==
    IF text = <<>> THEN <<>> ELSE replace_hyphen(sub_escape_chars(text))

TextChars == Range(escape_chars) \cup {"-", "\\", "a", " "}

Texts == UNION {[1..n -> TextChars] : n \in 0..MaxText}

SafeMdInit ==
    /\ Loaded
    /\ subscribed_users = {}
    /\ fn_args \in {<<x>> : x \in Texts}

SafeMd ==
    /\ fn_result = <<>>
    /\ fn_result' = <<safe_md(fn_args[1])>>
    /\ UNCHANGED <<cache_vars, task_vars, iter_vars, hist_vars, cycle_vars,
                   subscribed_users, calls, fn_args>>

SafeMdNext == SafeMd

SafeMdSpec == SafeMdInit /\ [][SafeMdNext]_vars

(***************************************************************************)
(* Properties.                                                             *)
(***************************************************************************)
\* no element occurs twice in the sequence
distinct(s) == \A i, j \in 1..Len(s) : i # j => s[i] # s[j]

\* the scheduler is awaiting a send of an article to a recipient
sched_dispatching ==
    pc["sched"] \in {"await_md", "await_fallback"}

\* C1: when two consecutive cycles of the scheduler both fetch, for the same
\* recipient, an article with the same url that passes the filters, the
\* second cycle does not dispatch it again, whichever way (MarkdownV2 or
\* plain-text fallback) the first cycle delivered it.  Stated for the tracked
\* recipient and url: the scheduler never dispatches a pair that its
\* previous cycle delivered.
C1_NoRepeatInNextCycle ==
    ~(/\ sched_dispatching
      /\ <<chat_id["sched"], UrlOf[a["sched"]]>> \in prev)

\* C2: when a cycle of the scheduler reaches its sleep and none of its sends
\* failed, every article that it fetched for a recipient, that was unseen
\* when the cycle began and that passes the filters, was delivered to that
\* recipient in the cycle.
C2_CycleDeliversToAll ==
    (pc["sched"] = "sleep" /\ ~cyc_failed) => cyc_owed \subseteq now

\* C3: after a send of the cycle failed, the scheduler still runs the pass of
\* every recipient that comes later in the iteration: it never ends with
\* recipients that the iterator has not yielded.
C3_LaterRecipientsServed ==
    ~(pc["sched"] = "dead" /\ cyc_failed /\ iter_rest # {})

\* C4: the scheduled_job task never ends: it is never in a crashed or
\* stopped state.
C4_SchedulerNeverEnds ==
    pc["sched"] # "dead"

\* C5: a pass of the scheduler and a pass of a command handler are never both
\* between their start and their end.
C5_OnePassAtATime ==
    ~(in_pass("sched") /\ in_pass("cmd"))

\* C6: the set and the queue hold the same identifiers, each once in the
\* queue, and the queue is never longer than the capacity.
C6_SetMatchesQueue ==
    /\ sent_news_urls = Range(sent_news_deque)
    /\ distinct(sent_news_deque)
    /\ Len(sent_news_deque) <= maxlen

\* an identifier was evicted and the queue is as long as it gets
C6_Witness ==
    /\ Len(calls) = MaxCalls
    /\ Range(calls) \ sent_news_urls # {}
    /\ Len(sent_news_deque) = maxlen - 1

\* C7 as stated: after remember_url was called with maxlen + 1 distinct
\* identifiers, exactly the first is no longer seen.
C7_OnlyFirstEvicted ==
    (Len(calls) = maxlen + 1 /\ distinct(calls)) =>
        /\ calls[1] \notin sent_news_urls
        /\ \A i \in 2..(maxlen + 1) : calls[i] \in sent_news_urls

\* the number of identifiers seen after n distinct ones were remembered
kept(n) == IF n < maxlen - 1 THEN n ELSE maxlen - 1

\* C7 amended: after remember_url was called with n distinct identifiers,
\* exactly the last min(n, maxlen - 1) of them are seen; after maxlen + 1 of
\* them the first two are no longer seen and the other maxlen - 1 are.
C7_FifoEviction ==
    distinct(calls) =>
        sent_news_urls =
            {calls[i] : i \in (Len(calls) - kept(Len(calls)) + 1)..Len(calls)}

\* maxlen + 1 distinct identifiers were remembered
C7_Witness ==
    Len(calls) = maxlen + 1 /\ distinct(calls)

\* C8: a call of remember_url with the identifier of the call just before it
\* leaves the set and the queue as they were.
C8_RememberTwice ==
    [][(/\ calls # <<>>
        /\ calls' = Append(calls, calls[Len(calls)]))
       => (sent_news_urls' = sent_news_urls /\ sent_news_deque' = sent_news_deque)]_vars

\* the same identifier was passed twice in a row, to a cache that is as full
\* as it gets
C8_Witness ==
    /\ Len(calls) >= 2
    /\ calls[Len(calls)] = calls[Len(calls) - 1]
    /\ Len(sent_news_deque) = maxlen - 1

\* C9: an identifier never passed to remember_url is never in the set; the
\* identifier a call passes is in the set after the call; and an identifier
\* leaves the set only in a call of remember_url, as the oldest entry of the
\* queue.
C9_SeenUntilEvicted ==
    /\ [](sent_news_urls \subseteq Range(calls))
    /\ [][/\ calls' # calls => calls'[Len(calls')] \in sent_news_urls'
          /\ \A x \in sent_news_urls \ sent_news_urls' :
                calls' # calls /\ x = Head(sent_news_deque)]_vars

\* the first identifier passed has been evicted, an identifier never passed
\* exists, and the last one passed is seen
C9_Witness ==
    /\ calls # <<>>
    /\ calls[1] \notin sent_news_urls
    /\ Ids \ Range(calls) # {}
    /\ calls[Len(calls)] \in sent_news_urls

\* the catalogue entries whose source name contains a blocklisted substring
\* in some letter case
Blocklisted ==
    {n \in ArticleIds :
        /\ Catalogue[n].source = "obj"
        /\ Catalogue[n].source_name \notin {Null, Absent}
        /\ \E b \in 1..Len(BANNED_SOURCES) :
             \E i \in 1..Len(Catalogue[n].source_name) :
                /\ i + Len(BANNED_SOURCES[b]) - 1 <= Len(Catalogue[n].source_name)
                /\ \A j \in 1..Len(BANNED_SOURCES[b]) :
                      lower_char(Catalogue[n].source_name[i + j - 1])
                        = lower_char(BANNED_SOURCES[b][j])}

\* C10: no task awaits a send, MarkdownV2 or fallback, of an article whose
\* source name contains a blocklisted substring in any letter case.
C10_BannedNeverSent ==
    \A t \in Tasks :
        pc[t] \in {"await_md", "await_fallback"} => a[t] \notin Blocklisted

\* a pass has read an article of a blocklisted source, written in upper
\* case, and gone on with its loop
C10_Witness ==
    \E t \in Tasks :
        /\ pc[t] = "articles"
        /\ a[t] \in Blocklisted
        /\ Catalogue[a[t]].source_name # lower(Catalogue[a[t]].source_name)

\* C11: a failed send never aborts the batch: a task that leaves the await
\* of a send while articles of its list are unread goes on with the loop (or
\* with the fallback of the same article); it does not leave the pass.
C11_FailedSendKeepsBatch ==
    [][\A t \in Tasks :
          (/\ pc[t] \in {"await_md", "await_fallback"}
           /\ unread[t] > 0
           /\ pc'[t] # pc[t])
          => pc'[t] \in {"await_fallback", "articles"}]_vars

\* C12: two articles of one fetched list with the same url do not both pass
\* the seen check: a pass never accepts an article whose url it has already
\* accepted and handed to the send.
C12_NoDuplicateInBatch ==
    [][\A t \in Tasks :
          (pc[t] = "articles" /\ pc'[t] = "await_md")
          => UrlOf[a'[t]] \notin accepted[t]]_vars

\* C13: a failure of the fetch is caught inside the pass: from the fetch the
\* pass goes to its except clause and returns to its caller without awaiting
\* a send, the cache and the record of deliveries are left as they were, and
\* the scheduler is back at its for statement with an iterator that is still
\* valid, so that it goes on to the next recipient or to its sleep.
C13_FetchFailureCaught ==
    [][\A t \in Tasks :
          /\ (pc[t] = "fetch" /\ pc'[t] \notin {"fetch", "articles", "await_notice"})
             => (pc'[t] = "fetch_error" /\ UNCHANGED <<cache_vars, now>>)
          /\ (pc[t] = "fetch_error" /\ pc'[t] # "fetch_error")
             => /\ UNCHANGED <<cache_vars, now>>
                /\ pc'[t] = pass_return(t).pc
                /\ t = "sched" => /\ running' = "sched"
                                  /\ si_used' = Cardinality(subscribed_users')]_vars

\* the fetch of a scheduled pass failed while the cache held a url and
\* recipients were left in the iteration
C13_Witness ==
    /\ pc["sched"] = "fetch_error"
    /\ sent_news_urls # {}
    /\ iter_rest # {}

\* the catalogue entries with a malformed or absent field: no url key, or a
\* null title, description, content or source
Malformed ==
    {n \in ArticleIds :
        \/ Catalogue[n].url = AbsentUrl
        \/ Catalogue[n].source = "null"
        \/ Null \in {Catalogue[n].title, Catalogue[n].description,
                     Catalogue[n].content, Catalogue[n].source_name}}

\* C14: an article with a malformed or absent field is dropped on its own:
\* no task awaits a send of such an article, and a pass does not leave its
\* loop while articles of its list come after the one it reads.
C14_MalformedDroppedAlone ==
    /\ [](\A t \in Tasks :
            pc[t] \in {"await_md", "await_fallback"} => a[t] \notin Malformed)
    /\ [][\A t \in Tasks :
            (pc[t] = "articles" /\ unread[t] > 1)
            => pc'[t] \in {"articles", "await_md"}]_vars

\* C15: a pass whose fetch succeeded and that dispatched no article sends the
\* notice: when the loop ends with no article accepted, the pass goes on to
\* the send of the notice.
C15_NoticeWhenNothingSent ==
    [][\A t \in Tasks :
          (/\ pc[t] = "articles"
           /\ unread[t] = 0
           /\ accepted[t] = {}
           /\ pc'[t] # "articles")
          => pc'[t] = "await_notice"]_vars

\* the text holds the word in some letter case
contains_nocase(s, sub) ==
    \E i \in 0..(Len(s) - Len(sub)) :
        \A j \in 1..Len(sub) : lower_char(s[i + j]) = lower_char(sub[j])

\* the text classify_article works on: the title, a blank, the description
joined == fn_args[1] \o <<" ">> \o fn_args[2]

names_company == \E k \in Range(TOP_COMPANIES) : contains_nocase(joined, k)

names_crypto == \E k \in Range(CRYPTO_KEYWORDS) : contains_nocase(joined, k)

names_economy == \E k \in Range(ECONOMY_KEYWORDS) : contains_nocase(joined, k)

Categories == ALLOWED_CATEGORIES \cup {"Other News"}

\* C16: classify_article returns a category for every title and description;
\* for two empty strings it returns the default category, and for a text
\* that holds a name of TOP_COMPANIES in any letter case it returns the
\* company category, also when crypto or economy keywords are present.
C16_CompanyFirst ==
    fn_result # <<>> =>
        /\ fn_result[1] \in Categories
        /\ fn_args = << <<>>, <<>> >> => fn_result[1] = "Other News"
        /\ names_company => fn_result[1] = "Top Company News"

\* a title with a company name in upper case and a description with a crypto
\* keyword were classified
C16_Witness ==
    /\ fn_result # <<>>
    /\ fn_args[1] = <<"T","E","S","L","A">>
    /\ fn_args[2] = <<"b","i","t","c","o","i","n">>

\* C17: matching is case-insensitive for every list: a text that holds an
\* entry of CRYPTO_KEYWORDS in any letter case and no company name is
\* classified as crypto, and a text that holds an entry of ECONOMY_KEYWORDS
\* in any letter case, no company name and no crypto keyword is classified
\* as economic.
C17_KeywordsAnyCase ==
    fn_result # <<>> =>
        /\ (~names_company /\ names_crypto) => fn_result[1] = "Crypto Market"
        /\ (~names_company /\ ~names_crypto /\ names_economy)
           => fn_result[1] \in ALLOWED_CATEGORIES \ {"Top Company News", "Crypto Market"}

\* the reserved punctuation of MarkdownV2
Reserved ==
    {"_", "*", "[", "]", "(", ")", "~", Backtick, ">", "#", "+", "=", "|", "{",
     "}", ".", "!", "-"}

\* the positions of s that hold an inserted escape marker: position i of the
\* input lands at position i plus the number of reserved characters up to i
reserved_upto(s, i) == Cardinality({j \in 1..i : s[j] \in Reserved})

\* C18: safe_md returns its input with exactly one backslash inserted
\* immediately before each reserved character (the class of line 61 and the
\* hyphen) and nothing else changed: every input character is found, in order,
\* in the output; the output is longer by exactly the number of reserved
\* characters; each reserved character is preceded by one inserted backslash,
\* and a backslash (of the input or inserted by the first pass) is never
\* escaped by the hyphen pass.
C18_EscapedOnce ==
    fn_result # <<>> =>
        LET s == fn_args[1]
            r == fn_result[1]
        IN /\ Len(r) = Len(s) + reserved_upto(s, Len(s))
           /\ \A i \in 1..Len(s) :
                 /\ r[i + reserved_upto(s, i)] = s[i]
                 /\ s[i] \in Reserved => r[i + reserved_upto(s, i) - 1] = "\\"

\* a text with a backslash of its own, a hyphen and a character of the class
C18_Witness ==
    /\ fn_args = << <<"\\", "-", ".">> >>
    /\ fn_result = << <<"\\", "\\", "-", "\\", ".">> >>

\* C19: whatever the interleaving of the scheduled pass and the passes of
\* /start and /update, a send never returns successfully (MarkdownV2 or plain
\* text) for a recipient and a url that the scheduler has already delivered to
\* that recipient in this cycle or the one before. No url is ever evicted
\* here: the catalogue holds fewer distinct urls than the cache keeps.
C19_NoSecondDelivery ==
    [][\A t \in Tasks :
          (pc[t] \in {"await_md", "await_fallback"} /\ pc'[t] = "articles")
          => <<chat_id[t], UrlOf[a[t]]>> \notin (now \cup prev)]_vars

\* C20: a url enters the dedup cache only when a MarkdownV2 send of an article
\* with that url returns without error: every step that adds a url to
\* sent_news_urls is the return of a task's send of line 185 for that url, and
\* the url is then also in the deque. A failed send, the plain-text fallback,
\* a filtered or malformed article and the notice leave the cache unchanged.
C20_CachedOnlyAfterMdSend ==
    [][/\ \A u \in sent_news_urls' \ sent_news_urls :
             \E t \in Tasks : /\ pc[t] = "await_md"
                              /\ pc'[t] = "articles"
                              /\ u = UrlOf[a[t]]
       /\ \A t \in Tasks :
             (pc[t] \in {"articles", "await_fallback", "await_notice", "fetch",
                         "fetch_error"} /\ pc'[t] # pc[t])
             => UNCHANGED cache_vars]_vars

\* a url is cached after one MarkdownV2 send returned, while a plain-text
\* fallback for an article of another url is in flight
C20_Witness ==
    \E t \in Tasks : /\ pc[t] = "await_fallback"
                     /\ sent_news_urls # {}
                     /\ UrlOf[a[t]] \notin sent_news_urls

=============================================================================
